---- MODULE Spec2Model ----
(***************************************************************************)
(* The table transform pipeline of the board-game dashboard                *)
(* (src/src/app/app_wrangling.py) and the callers of it in                 *)
(* src/src/app/app_graphing.py.                                            *)
(*                                                                         *)
(* A data frame is [columns |-> set of column names, rows |-> sequence of  *)
(* records].  The tag columns category / mechanic / publisher hold the     *)
(* tags of a game (the fields split by call_boardgame_data, modelled as    *)
(* sets); the group column, built by form_group, holds Python lists        *)
(* ([list |-> sequence]) and, once exploded, scalars ([scalar |-> tag]).   *)
(* Ratings are counted in tenths of a point, so that they are integers.    *)
(***************************************************************************)
EXTENDS Integers, Sequences, FiniteSets, TLC

VARIABLES data,     \* the data frame the dashboard loaded and hands to every call
          loaded,   \* the same frame as call_boardgame_data returned it
          request,  \* the last call: its name and its arguments
          result,   \* the data frame the last call returned
          table     \* the aggregate (counts, means, densities) the last call returned

vars == <<data, loaded, request, result, table>>

----------------------------------------------------------------------------
(* Bounds of the model *)

NumGames == 2       \* rows of the loaded data frame
NumTags == 3        \* tags of the chosen column where form_group is applied
NumSelTags == 2     \* tags of the category column in the request specifications
MaxN == 1           \* the number of games asked of call_boardgame_filter: 0 .. MaxN
NumTopTags == 6     \* tags of the chosen column in the top-5 specification
MaxRowTags == 3     \* tags one game carries in the top-5 specification
NumSideTags == 1    \* tags of the mechanic and publisher columns in the filter spec.
MaxListLen == 2     \* length of a user-selected tag list
MaxYearOffset == 1  \* publication years FirstYear .. FirstYear + MaxYearOffset
MaxRating == 1      \* average ratings 0 .. MaxRating (tenths of a point)
MaxBinRating == 8   \* average ratings of the density specification
MaxUsers == 1       \* users_rated 0 .. MaxUsers
MaxPermute == 3     \* up to this many elements every tie / hash order is explored

FirstYear == 2000

----------------------------------------------------------------------------
(* Values *)

TagNames == <<"a", "b", "c", "d", "e", "f", "g", "h">>
GameNames == <<"g1", "g2", "g3", "g4">>

Tags(k) == {TagNames[i] : i \in 1..k}
TagIdx(t) == CHOOSE i \in 1..Len(TagNames) : TagNames[i] = t

NoneVal == "None"                 \* Python's None inside a default list [None]
AllSelected == "All Selected"

TagColumns == {"category", "mechanic", "publisher"}
BaseColumns == {"game_id", "name", "year_published", "average_rating",
                "users_rated", "category", "mechanic", "publisher"}

PyList(s) == [list |-> s]
Scalar(x) == [scalar |-> x]
NaNCell == [nan |-> TRUE]
IsList(c) == DOMAIN c = {"list"}

Range(s) == {s[i] : i \in 1..Len(s)}

\* The sequence f itself, evaluated once into a tuple.
AsSeq(f) == f \o <<>>

\* pd.to_datetime(y, format="%Y"): the first of January of year y.
to_datetime(y) == <<y, 1, 1>>

\* Timestamp comparison a < b.
TsLt(a, b) ==
    \/ a[1] < b[1]
    \/ a[1] = b[1] /\ a[2] < b[2]
    \/ a[1] = b[1] /\ a[2] = b[2] /\ a[3] < b[3]

\* Timestamp comparison a <= b.
TsLeq(a, b) ==
    \/ a[1] < b[1]
    \/ a[1] = b[1] /\ a[2] < b[2]
    \/ a[1] = b[1] /\ a[2] = b[2] /\ a[3] <= b[3]

YearOf(ts) == ts[1]

Years == FirstYear .. (FirstYear + MaxYearOffset)

\* Orders of n things: every permutation while n is small, else the two
\* directions.  Used for what the code leaves open: the order of ties of a
\* sort and the iteration order of a set of strings.
Orders(n) ==
    IF n <= MaxPermute
    THEN {f \in [1..n -> 1..n] : \A i, j \in 1..n : f[i] = f[j] => i = j}
    ELSE {[i \in 1..n |-> i], [i \in 1..n |-> n + 1 - i]}

----------------------------------------------------------------------------
(* Data frames *)

\* One row of the frame call_boardgame_data returns.
Game(i, y, r, u, c, m, p) ==
    [game_id |-> i, name |-> GameNames[i], year_published |-> to_datetime(y),
     average_rating |-> r, users_rated |-> u,
     category |-> c, mechanic |-> m, publisher |-> p]

\* df[mask]: the rows whose mask entry is true, in order, as a new frame.
BoolIndex(df, mask) ==
    LET F[i \in 0..Len(df.rows)] ==
            IF i = 0 THEN <<>>
            ELSE IF mask[i] THEN Append(F[i - 1], df.rows[i]) ELSE F[i - 1]
    IN  [columns |-> df.columns, rows |-> F[Len(df.rows)]]

\* df[name] = values: sets (or adds) a column of the frame.
SetColumn(df, name, values) ==
    [columns |-> df.columns \cup {name},
     rows |-> AsSeq([i \in 1..Len(df.rows) |-> (name :> values[i]) @@ df.rows[i]])]

\* The elements of set S as a sequence, in the order ord ranks their tags.
ListOf(S, ord) ==
    AsSeq([k \in 1..Cardinality(S) |->
        CHOOSE x \in S : Cardinality({y \in S : ord[TagIdx(y)] < ord[TagIdx(x)]}) = k - 1])

----------------------------------------------------------------------------
(* year_filter, rating_filter *)

year_filter(df, year_in, year_out) ==
    LET yi == to_datetime(year_in)
        yo == to_datetime(year_out)
        mask == [i \in 1..Len(df.rows) |->
                    /\ TsLeq(yi, df.rows[i].year_published)
                    /\ TsLeq(df.rows[i].year_published, yo)]
    IN  BoolIndex(df, mask)

\* df[:no_of_ratings]
rating_filter_head(df, no_of_ratings) ==
    [columns |-> df.columns,
     rows |-> SubSeq(df.rows, 1, IF no_of_ratings < Len(df.rows)
                                 THEN no_of_ratings ELSE Len(df.rows))]

rating_filter(df, no_of_ratings) ==
    BoolIndex(df, [i \in 1..Len(df.rows) |-> df.rows[i].users_rated >= no_of_ratings])

----------------------------------------------------------------------------
(* call_bool_series_and, call_bool_series_or *)

call_bool_series_and_no_fallback(df, col, list_) ==
    [i \in 1..Len(df.rows) |-> \A k \in 1..Len(list_) : list_[k] \in df.rows[i][col]]

call_bool_series_and(df, col, list_) ==
    LET list_bool == AsSeq([i \in 1..Len(df.rows) |->
                        \A k \in 1..Len(list_) : list_[k] \in df.rows[i][col]])
    IN  IF \A i \in 1..Len(df.rows) : ~list_bool[i]
        THEN AsSeq([i \in 1..Len(df.rows) |-> ~list_bool[i]])
        ELSE list_bool

call_bool_series_or_all(df, col, list_) ==
    [i \in 1..Len(df.rows) |-> \A k \in 1..Len(list_) : list_[k] \in df.rows[i][col]]

call_bool_series_or(df, col, list_) ==
    [i \in 1..Len(df.rows) |-> \E k \in 1..Len(list_) : list_[k] \in df.rows[i][col]]

----------------------------------------------------------------------------
(* helper_form_group, form_group *)

\* x is the Python list of the group, user_list the selected tags.
helper_form_group_skip(x, user_list) == x

helper_form_group(x, user_list) ==
    IF \A k \in 1..Len(user_list) : user_list[k] \in Range(x)
    THEN <<AllSelected>>
    ELSE x

Intersection_list_row(x, list_, ord) == ListOf(x, ord)

\* list(set(x).intersection(set(list_))); ord is the iteration order of the set.
Intersection_list(x, list_, ord) == ListOf(x \cap Range(list_), ord)

\* form_group writes the group column into the frame it is given and returns
\* that frame.
form_group(df, col, list_, ord) ==
    LET g1(i) == Intersection_list(df.rows[i][col], list_, ord)
        g2(i) == IF Len(list_) > 1 THEN helper_form_group(g1(i), list_) ELSE g1(i)
    IN  SetColumn(df, "group", [i \in 1..Len(df.rows) |-> PyList(g2(i))])

----------------------------------------------------------------------------
(* Floats, optional integers, sorting, explode *)

NaN == <<>>                       \* a missing cell of a numeric table
Num(n) == <<n>>
NanAdd(x, y) == IF x = NaN \/ y = NaN THEN NaN ELSE Num(x[1] + y[1])
fillna0(x) == IF x = NaN THEN Num(0) ELSE x

NoneInt == <<>>                   \* n=None
SomeInt(n) == <<n>>
Truthy(n) == n # NoneInt /\ n[1] # 0        \* Python's `if n:`

\* A mean is kept as <<sum, count>>; MeanLess(a, b) is a < b.
MeanLess(a, b) == a[1] * b[2] < b[1] * a[2]
MeanEq(a, b) == a[1] * b[2] = b[1] * a[2]

RECURSIVE Sum(_, _)
Sum(f, S) ==
    IF S = {} THEN 0
    ELSE LET x == CHOOSE x \in S : TRUE IN f[x] + Sum(f, S \ {x})

\* s sorted by a strict total order: ahead[i] is the number of elements that
\* come before s[i].
Placed(s, ahead) ==
    AsSeq([k \in 1..Len(s) |-> s[CHOOSE i \in 1..Len(s) : ahead[i] = k - 1]])

Head_n(s, n) == IF n >= Len(s) THEN s ELSE SubSeq(s, 1, n)

\* df.sort_values("average_rating", ascending=False); tie ranks the game ids
\* and settles the order of equal ratings, which the sort leaves open.
sorted_rows(s, tie) ==
    LET Before(a, b) ==
            \/ a.average_rating > b.average_rating
            \/ a.average_rating = b.average_rating /\ tie[a.game_id] < tie[b.game_id]
    IN  Placed(s, [i \in 1..Len(s) |->
                     Cardinality({j \in 1..Len(s) : Before(s[j], s[i])})])

sort_values(df, tie) == [columns |-> df.columns, rows |-> sorted_rows(df.rows, tie)]

Flatten(ss) ==
    LET F[i \in 0..Len(ss)] == IF i = 0 THEN <<>> ELSE F[i - 1] \o ss[i]
    IN  F[Len(ss)]

\* df.explode("group"): one row per element of a list cell, a NaN row for an
\* empty list, other cells as they are.
explode_group(df) ==
    LET One(r) ==
            IF ~IsList(r.group) THEN <<r>>
            ELSE IF r.group.list = <<>> THEN <<[r EXCEPT !.group = NaNCell]>>
            ELSE [k \in 1..Len(r.group.list) |->
                     [r EXCEPT !.group = Scalar(r.group.list[k])]]
    IN  [columns |-> df.columns,
         rows |-> Flatten([i \in 1..Len(df.rows) |-> One(df.rows[i])])]

\* data.copy(deep=True): a new frame object with the same cells.
copy(df) == df

----------------------------------------------------------------------------
(* call_boardgame_filter *)

\* The handlers return [ret |-> what the call returns, data |-> the caller's
\* frame as the call leaves it].

\* boardgame_data[columns_bool[0] & columns_bool[1] & columns_bool[2]]
keep_matched(bd, c1, c2, c3) ==
    BoolIndex(bd, [i \in 1..Len(bd.rows) |-> c1[i] /\ c2[i] /\ c3[i]])

matched_of(bd, cat, mech, pub) ==
    keep_matched(bd, call_bool_series_and(bd, "category", cat),
                     call_bool_series_and(bd, "mechanic", mech),
                     call_bool_series_and(bd, "publisher", pub))

filtered_rows(df, cat, mech, pub, n_ratings) ==
    matched_of(rating_filter(copy(df), n_ratings), cat, mech, pub)

call_boardgame_filter(df, cat, mech, pub, n, n_ratings, tie) ==
    LET matched == filtered_rows(df, cat, mech, pub, n_ratings)
        sorted == sort_values(matched, tie)
        cut == IF Truthy(n)
               THEN [columns |-> sorted.columns, rows |-> Head_n(sorted.rows, n[1])]
               ELSE sorted
    IN  [ret |-> cut, data |-> df]

----------------------------------------------------------------------------
(* call_boardgame_radio *)

\* boardgame_data[boardgame_data["group"] != ""]
drop_empty_group(df) ==
    BoolIndex(df, [i \in 1..Len(df.rows) |-> df.rows[i].group # Scalar("")])

\* form_group applied to the caller's frame.
call_boardgame_radio_in_place(df, col, list_, year_in, year_out, no_of_ratings, ord) ==
    LET b1 == year_filter(df, year_in, year_out)
        b2 == rating_filter(b1, no_of_ratings)
        grouped == form_group(df, col, list_, ord)
        b3 == BoolIndex(form_group(b2, col, list_, ord), call_bool_series_or(b2, col, list_))
    IN  [ret |-> drop_empty_group(b3), data |-> grouped]

\* The frame form_group writes to is the one the boolean indexing of line 155
\* made, not the caller's.
call_boardgame_radio(df, col, list_, year_in, year_out, no_of_ratings, ord) ==
    LET b1 == year_filter(copy(df), year_in, year_out)
        b2 == rating_filter(b1, no_of_ratings)
        b3 == BoolIndex(b2, call_bool_series_or(b2, col, list_))
        b4 == form_group(b3, col, list_, ord)
    IN  [ret |-> drop_empty_group(b4), data |-> df]

----------------------------------------------------------------------------
(* count_group *)

IdentityOrder == [i \in 1..Len(TagNames) |-> i]

\* Group names in the order groupby sorts them: "All Selected" sorts before
\* the (lower-case) tags.
SortedNames(S) ==
    (IF AllSelected \in S THEN <<AllSelected>> ELSE <<>>)
        \o ListOf(S \ {AllSelected}, IdentityOrder)

ScalarGroups(df) ==
    {df.rows[i].group.scalar :
        i \in {j \in 1..Len(df.rows) : DOMAIN df.rows[j].group = {"scalar"}}}

count_group(df) ==
    LET ex == explode_group(copy(df))
        keyed == {i \in 1..Len(ex.rows) : DOMAIN ex.rows[i].group = {"scalar"}}
        index == {ex.rows[i].year_published : i \in keyed}
        names == ScalarGroups(ex)
        count(y, g) ==
            Cardinality({i \in keyed : /\ ex.rows[i].year_published = y
                                       /\ ex.rows[i].group = Scalar(g)})
        \* groupby(...).game_id.count() and unstack(): absent pairs are NaN
        cell0 == [y \in index |-> [g \in names |->
                    IF count(y, g) = 0 THEN NaN ELSE Num(count(y, g))]]
        all_addition == [y \in index |-> fillna0(cell0[y][AllSelected])]
        revised == [y \in index |-> [g \in names |->
                      IF g = AllSelected THEN cell0[y][g]
                      ELSE NanAdd(cell0[y][g], all_addition[y])]]
        out == IF AllSelected \in names
               THEN [kind |-> "counts", index |-> index,
                     columns |-> SortedNames(names \ {AllSelected}) \o <<AllSelected>>,
                     cell |-> revised]
               ELSE [kind |-> "counts", index |-> index,
                     columns |-> SortedNames(names), cell |-> cell0]
    IN  [ret |-> out, data |-> df]

----------------------------------------------------------------------------
(* call_boardgame_top, call_boardgame_top_density *)

TopN == 5

top_head_all(s) == s

top_head(s) == Head_n(s, TopN)

\* groupby(col)["average_rating"].mean(): the mean of every tag, as <<sum, count>>
tag_means(df, col) ==
    [t \in UNION {df.rows[i][col] : i \in 1..Len(df.rows)} |->
        LET with == {i \in 1..Len(df.rows) : t \in df.rows[i][col]}
        IN  <<Sum([i \in with |-> df.rows[i].average_rating], with), Cardinality(with)>>]

\* .sort_values(ascending=False)[:5]; tie ranks the tags and settles the order
\* of equal means, which the sort leaves open.
sorted_tags(s, mean, tie) ==
    LET Before(a, b) ==
            \/ MeanLess(mean[b], mean[a])
            \/ MeanEq(mean[a], mean[b]) /\ tie[TagIdx(a)] < tie[TagIdx(b)]
    IN  Placed(s, [i \in 1..Len(s) |->
                     Cardinality({j \in 1..Len(s) : Before(s[j], s[i])})])

top_tags(mean, tie) == top_head(sorted_tags(ListOf(DOMAIN mean, IdentityOrder), mean, tie))

\* .to_frame().reset_index(): the frame of (tag, mean rating) rows
top_frame(order, mean) ==
    [kind |-> "top",
     rows |-> AsSeq([k \in 1..Len(order) |->
                        [tag |-> order[k], average_rating |-> mean[order[k]]]])]

top_of(mean, tie) == top_frame(top_tags(mean, tie), mean)

call_boardgame_top(df, col, year_in, year_out, no_of_ratings, tie) ==
    LET b1 == year_filter(copy(df), year_in, year_out)
        b2 == rating_filter(b1, no_of_ratings)
    IN  [ret |-> top_of(tag_means(b2, col), tie), data |-> df]

\* call_boardgame_top(...)[col].to_list()
tag_list(top) == AsSeq([k \in 1..Len(top.rows) |-> top.rows[k].tag])

\* The frame form_group writes to is the one the boolean indexing made.
top_density_of(df, col, boardgame_list, ord) ==
    explode_group(form_group(BoolIndex(df, call_bool_series_or(df, col, boardgame_list)),
                             col, boardgame_list, ord))

call_boardgame_top_density(df, col, year_in, year_out, no_of_ratings, tie, ord) ==
    LET boardgame_data == copy(df)
        top == call_boardgame_top(df, col, year_in, year_out, no_of_ratings, tie).ret
    IN  [ret |-> top_density_of(boardgame_data, col, tag_list(top), ord), data |-> df]

----------------------------------------------------------------------------
(* bin_rating, density_transform *)

NumBins == 21

\* pd.cut(rating, bins=arange(-0.25, 10.5, 0.5), labels=arange(0, 10.5, 0.5)):
\* bin k is (0.5 k - 0.25, 0.5 k + 0.25], its label 0.5 k; in tenths, 5 k.
cut(r) ==
    LET hit == {k \in 0..(NumBins - 1) : 10 * k - 5 < 2 * r /\ 2 * r <= 10 * k + 5}
    IN  IF hit = {} THEN NaN ELSE Num(5 * (CHOOSE k \in hit : TRUE))

BinLabels == [k \in 1..NumBins |-> Num(5 * (k - 1))]

\* bin_rating writes the bin column into the frame it is given.
bin_rating(df) ==
    SetColumn(df, "average_rating_bin",
              [i \in 1..Len(df.rows) |-> cut(df.rows[i].average_rating)])

density_ratio_raw(n, total) == <<n, 1>>

\* temp["density"] / temp["density"].sum(), kept as <<numerator, denominator>>
density_ratio(n, total) == IF total = 0 THEN NaN ELSE <<n, total>>

\* The rows of one group: temp = plot_density[plot_density["group"] == x] with
\* its density and mean columns.  counts[k] is the group's count in bin k.  The
\* mean is assigned by index label: it lands on the row of the first bin and
\* is missing elsewhere.
density_rows(g, counts, total, mean) ==
    [k \in 1..NumBins |->
        [average_rating_bin |-> BinLabels[k], group |-> g,
         density |-> density_ratio(counts[k], total),
         mean |-> IF k = 1 THEN mean ELSE NaN]]

\* groupby(["average_rating_bin", "group"])[col].count() for one group
bin_counts(ex, g) ==
    [k \in 1..NumBins |->
        Cardinality({i \in 1..Len(ex.rows) :
                        /\ ex.rows[i].group = Scalar(g)
                        /\ ex.rows[i].average_rating_bin = BinLabels[k]})]

\* groupby("group")["average_rating"].mean() for one group
group_mean(ex, g) ==
    LET of == {i \in 1..Len(ex.rows) : ex.rows[i].group = Scalar(g)}
    IN  <<Sum([i \in of |-> ex.rows[i].average_rating], of), Cardinality(of)>>

density_group(g, counts, mean) ==
    density_rows(g, counts, Sum(counts, 1..NumBins), mean)

density_table(ex, names) ==
    [kind |-> "density",
     rows |-> Flatten([j \in 1..Len(names) |->
                 density_group(names[j], bin_counts(ex, names[j]), group_mean(ex, names[j]))])]

density_transform(df, col) ==
    LET ex == explode_group(copy(df))
    IN  [ret |-> density_table(ex, SortedNames(ScalarGroups(ex))), data |-> df]

----------------------------------------------------------------------------
(* subset_data, remove_columns *)

\* s without the repeats of its elements, first occurrences kept
unique(s) ==
    LET F[i \in 0..Len(s)] ==
            IF i = 0 THEN <<>>
            ELSE IF s[i] \in Range(F[i - 1]) THEN F[i - 1] ELSE Append(F[i - 1], s[i])
    IN  F[Len(s)]

subset_data(df, col) ==
    LET boardgame_data == copy(df)
        cells(r) == IF r[col] = {} THEN <<NaNCell>>
                    ELSE LET l == ListOf(r[col], IdentityOrder)
                         IN  [k \in 1..Len(l) |-> Scalar(l[k])]
        exp_series == Flatten([i \in 1..Len(boardgame_data.rows) |->
                                  cells(boardgame_data.rows[i])])
    IN  [ret |-> [kind |-> "subset", values |-> unique(exp_series)], data |-> df]

remove_columns(df) ==
    LET boardgame_data == copy(df)
        keep == {"name", "year_published", "average_rating"}
                    \cup (IF "group" \in boardgame_data.columns THEN {"group"} ELSE {})
    IN  [ret |-> [columns |-> keep,
                  rows |-> AsSeq([i \in 1..Len(boardgame_data.rows) |->
                                     [c \in keep |-> boardgame_data.rows[i][c]]])],
         data |-> df]

----------------------------------------------------------------------------
(* Inputs *)

\* The frames of n games with the given years, ratings, rating counts and tags.
Frames(n, ys, rs, us, cs, ms, ps) ==
    LET Choice == ys \X rs \X us \X cs \X ms \X ps
    IN  {[columns |-> BaseColumns,
          rows |-> [i \in 1..n |-> Game(i, f[i][1], f[i][2], f[i][3], f[i][4], f[i][5], f[i][6])]]
         : f \in [1..n -> Choice]}

\* The tag lists a user can select in a drop-down: 1 .. MaxListLen distinct tags.
TagLists(tags) ==
    UNION {{l \in [1..n -> tags] : \A i, j \in 1..n : l[i] = l[j] => i = j}
           : n \in 1..MaxListLen}

\* The runs of at most MaxRowTags consecutive tags of the first k.
TagRuns(k) ==
    {{TagNames[i] : i \in p[1]..(p[1] + p[2] - 1)} :
        p \in {q \in (1..k) \X (0..MaxRowTags) : q[1] + q[2] - 1 <= k}}

NoFrame == [columns |-> {}, rows |-> <<>>]
NoTable == [kind |-> "none"]

----------------------------------------------------------------------------
(* Specification of form_group applied to a loaded frame *)

GroupFrames ==
    Frames(NumGames, {FirstYear}, {0}, {0}, SUBSET Tags(NumTags), {{"a"}}, {{"a"}})

InitGroup ==
    /\ data \in GroupFrames
    /\ loaded = data
    /\ request = [op |-> "load"]
    /\ result = NoFrame
    /\ table = NoTable

\* form_group(data, col, list_): the caller's frame gets the group column.
FormGroup ==
    \E list_ \in TagLists(Tags(NumTags)), ord \in Orders(NumTags) :
        /\ request' = [op |-> "form_group", col |-> "category", list_ |-> list_]
        /\ data' = form_group(data, "category", list_, ord)
        /\ result' = data'
        /\ UNCHANGED <<loaded, table>>

NextGroup == FormGroup

SpecGroup == InitGroup /\ [][NextGroup]_vars

\* The selected tags a row of a frame carries in the chosen column.
CarriesAll(r, col, list_) == \A k \in 1..Len(list_) : list_[k] \in r[col]
CarriesAny(r, col, list_) == \E k \in 1..Len(list_) : list_[k] \in r[col]

\* C1 as stated: after form_group, every record that carries every selected
\* tag has the group ["All Selected"], whatever the length of the list.
C1_AllSelected_AnyList ==
    request.op = "form_group" =>
        \A i \in 1..Len(result.rows) :
            CarriesAll(result.rows[i], request.col, request.list_)
                => result.rows[i].group = PyList(<<AllSelected>>)

\* C1 amended: after form_group with a list of two or more tags, every record
\* that carries every selected tag has the group ["All Selected"]; with a list
\* of one tag such a record has the group [that tag].
C1_AllSelected ==
    request.op = "form_group" =>
        \A i \in 1..Len(result.rows) :
            CarriesAll(result.rows[i], request.col, request.list_)
                => result.rows[i].group =
                       IF Len(request.list_) > 1 THEN PyList(<<AllSelected>>)
                       ELSE PyList(request.list_)

C1_Witness ==
    /\ request.op = "form_group"
    /\ Len(request.list_) = 2
    /\ \E i, j \in 1..Len(result.rows) :
          /\ CarriesAll(result.rows[i], request.col, request.list_)
          /\ result.rows[i].group = PyList(<<AllSelected>>)
          /\ ~CarriesAll(result.rows[j], request.col, request.list_)

\* C2: after form_group, the group of every record that does not carry every
\* selected tag is, as a set, the intersection of the record's tags with the
\* selected list, and holds no tag twice.
C2_Intersection ==
    request.op = "form_group" =>
        \A i \in 1..Len(result.rows) :
            ~CarriesAll(result.rows[i], request.col, request.list_) =>
                LET g == result.rows[i].group.list
                IN  /\ Range(g) = result.rows[i][request.col] \cap Range(request.list_)
                    /\ Len(g) = Cardinality(Range(g))

C2_Witness ==
    /\ request.op = "form_group"
    /\ \E i \in 1..Len(result.rows) :
          /\ ~CarriesAll(result.rows[i], request.col, request.list_)
          /\ Len(result.rows[i].group.list) = 1
          /\ Cardinality(result.rows[i][request.col]) = 2

----------------------------------------------------------------------------
(* Specification of call_boardgame_filter *)

FilterFrames ==
    Frames(NumGames, {FirstYear}, 0..MaxRating, 0..MaxUsers,
           SUBSET Tags(NumSelTags), SUBSET Tags(NumSideTags), SUBSET Tags(NumSideTags))

\* The default [None] or a selection.
FilterLists(tags) == {<<NoneVal>>} \cup TagLists(tags)

InitFilter ==
    /\ data \in FilterFrames
    /\ loaded = data
    /\ request = [op |-> "load"]
    /\ result = NoFrame
    /\ table = NoTable

FilterCall(cats, sides, ns, ratings) ==
    \E cat \in cats, mech \in sides, pub \in sides, n \in ns,
       n_ratings \in ratings, tie \in Orders(NumGames) :
        LET r == call_boardgame_filter(data, cat, mech, pub, n, n_ratings, tie)
        IN  /\ request' = [op |-> "filter", cat |-> cat, mech |-> mech, pub |-> pub,
                           n |-> n, n_ratings |-> n_ratings]
            /\ result' = r.ret
            /\ data' = r.data
            /\ UNCHANGED <<loaded, table>>

\* One request on a freshly loaded frame.
CallBoardgameFilter ==
    /\ request.op = "load"
    /\ FilterCall(FilterLists(Tags(NumSelTags)), FilterLists(Tags(NumSideTags)),
                  {NoneInt} \cup {SomeInt(k) : k \in 0..MaxN}, 0..MaxUsers)

NextFilter == CallBoardgameFilter

SpecFilter == InitFilter /\ [][NextFilter]_vars

Ids(df) == {df.rows[i].game_id : i \in 1..Len(df.rows)}
Min(a, b) == IF a <= b THEN a ELSE b

\* The loaded records that meet the rating threshold of the request.
MeetThreshold == {r \in Range(loaded.rows) : r.users_rated >= request.n_ratings}

\* Match-all with fallback: the column restricts r only if some record that
\* meets the threshold carries every requested tag of the column.
ColumnAdmits(r, col, list_) ==
    (\E q \in MeetThreshold : CarriesAll(q, col, list_)) => CarriesAll(r, col, list_)

Matching ==
    {r \in MeetThreshold : /\ ColumnAdmits(r, "category", request.cat)
                           /\ ColumnAdmits(r, "mechanic", request.mech)
                           /\ ColumnAdmits(r, "publisher", request.pub)}

\* C3 as stated: call_boardgame_filter returns exactly the records that meet
\* the rating threshold and the match-all-with-fallback condition of each of
\* the three columns.
C3_ExactlyMatching ==
    request.op = "filter" => Range(result.rows) = Matching

\* C3 amended: the returned records all meet the threshold and the three
\* column conditions, none is returned twice, and they are exactly those
\* records when no limit is given (n is None); a limit n > 0 keeps
\* min(n, number of such records) of them.
C3_MatchAll ==
    request.op = "filter" =>
        /\ Range(result.rows) \subseteq Matching
        /\ Len(result.rows) = Cardinality(Range(result.rows))
        /\ request.n = NoneInt => Range(result.rows) = Matching
        /\ Truthy(request.n) =>
              Len(result.rows) = Min(request.n[1], Cardinality(Matching))

C3_Witness ==
    /\ request.op = "filter"
    /\ request.n = NoneInt
    /\ Len(request.cat) = 2
    /\ request.mech = <<"a">>
    /\ \E r \in Range(result.rows) : CarriesAll(r, "category", request.cat)
    /\ \E q \in MeetThreshold : ~CarriesAll(q, "category", request.cat)
    /\ \A q \in MeetThreshold : ~CarriesAll(q, "mechanic", request.mech)
    /\ Range(result.rows) # MeetThreshold

\* C5: call_boardgame_filter returns the games in descending order of
\* average_rating, and for every n >= 0 (0 included) exactly
\* min(n, number of matching games) of them, the highest-rated ones.
C5_TopN ==
    request.op = "filter" =>
        /\ \A i, j \in 1..Len(result.rows) :
              i < j => result.rows[i].average_rating >= result.rows[j].average_rating
        /\ request.n # NoneInt =>
              /\ Len(result.rows) = Min(request.n[1], Cardinality(Matching))
              /\ \A r \in Range(result.rows), q \in Matching \ Range(result.rows) :
                    q.average_rating <= r.average_rating

----------------------------------------------------------------------------
(* Specification of call_boardgame_radio and count_group *)

RadioFrames ==
    Frames(NumGames, Years, {0}, 0..MaxUsers, SUBSET Tags(NumSelTags), {{"a"}}, {{"a"}})

InitRadio ==
    /\ data \in RadioFrames
    /\ loaded = data
    /\ request = [op |-> "load"]
    /\ result = NoFrame
    /\ table = NoTable

RadioCall(lists, years_in, years_out, ratings) ==
    \E list_ \in lists, year_in \in years_in, year_out \in years_out,
       no_of_ratings \in ratings, ord \in Orders(NumSelTags) :
        LET r == call_boardgame_radio(data, "category", list_, year_in, year_out,
                                      no_of_ratings, ord)
        IN  /\ request' = [op |-> "radio", col |-> "category", list_ |-> list_,
                           year_in |-> year_in, year_out |-> year_out,
                           no_of_ratings |-> no_of_ratings]
            /\ result' = r.ret
            /\ data' = r.data
            /\ table' = NoTable
            /\ UNCHANGED loaded

CallBoardgameRadio ==
    /\ request.op = "load"
    /\ RadioCall(TagLists(Tags(NumSelTags)), Years, Years, 0..MaxUsers)

\* count_group on the frame call_boardgame_radio returned.
CountGroup ==
    /\ request.op = "radio"
    /\ LET r == count_group(result)
       IN  /\ table' = r.ret
           /\ result' = r.data
    /\ request' = [request EXCEPT !.op = "count_group"]
    /\ UNCHANGED <<data, loaded>>

NextRadio == CallBoardgameRadio \/ CountGroup

SpecRadio == InitRadio /\ [][NextRadio]_vars

InYears(r, year_in, year_out) ==
    year_in <= YearOf(r.year_published) /\ YearOf(r.year_published) <= year_out

BaseOf(r) == [c \in BaseColumns |-> r[c]]

\* C4: call_boardgame_radio returns exactly the input records whose year lies
\* in [year_in, year_out], whose users_rated is at least no_of_ratings and
\* whose tags in the chosen column hold at least one selected tag.
C4_MatchAny ==
    request.op = "radio" =>
        LET want == {r \in Range(loaded.rows) :
                        /\ InYears(r, request.year_in, request.year_out)
                        /\ r.users_rated >= request.no_of_ratings
                        /\ CarriesAny(r, request.col, request.list_)}
        IN  /\ {BaseOf(r) : r \in Range(result.rows)} = want
            /\ Len(result.rows) = Cardinality(want)

C4_Witness ==
    /\ request.op = "radio"
    /\ Len(request.list_) = 2
    /\ \E r \in Range(result.rows) : ~CarriesAll(r, request.col, request.list_)
    /\ \E q \in Range(loaded.rows) :
          /\ CarriesAny(q, request.col, request.list_)
          /\ q.game_id \notin Ids(result)

\* C6: in the table of count_group, for every year and every tag column the
\* count is the number of games of the year whose group holds the tag plus
\* the number of games of the year whose group is "All Selected"; a year
\* with "All Selected" games only reports their count for the tag.  (A
\* missing cell is taken as a count of 0.)
C6_Counts ==
    request.op = "count_group" =>
        \A y \in table.index, g \in Range(table.columns) \ {AllSelected} :
            LET ofYear == {i \in 1..Len(result.rows) : result.rows[i].year_published = y}
                partial == {i \in ofYear : g \in Range(result.rows[i].group.list)}
                all == {i \in ofYear : result.rows[i].group = PyList(<<AllSelected>>)}
            IN  fillna0(table.cell[y][g]) = Num(Cardinality(partial) + Cardinality(all))

----------------------------------------------------------------------------
(* Specification of call_boardgame_top and call_boardgame_top_density *)

TopFrames ==
    Frames(NumGames, Years, 0..MaxRating, 0..MaxUsers, TagRuns(NumTopTags),
           {{"a"}}, {{"a"}})

InitTop ==
    /\ data \in TopFrames
    /\ loaded = data
    /\ request = [op |-> "load"]
    /\ result = NoFrame
    /\ table = NoTable

TopCall(years_in, years_out, ratings, ntags) ==
    \E year_in \in years_in, year_out \in years_out, no_of_ratings \in ratings,
       tie \in Orders(ntags) :
        LET r == call_boardgame_top(data, "category", year_in, year_out,
                                    no_of_ratings, tie)
        IN  /\ request' = [op |-> "top", col |-> "category", year_in |-> year_in,
                           year_out |-> year_out, no_of_ratings |-> no_of_ratings]
            /\ table' = r.ret
            /\ data' = r.data
            /\ result' = NoFrame
            /\ UNCHANGED loaded

TopDensityCall(years_in, years_out, ratings, ntags) ==
    \E year_in \in years_in, year_out \in years_out, no_of_ratings \in ratings,
       tie \in Orders(ntags), ord \in Orders(ntags) :
        LET r == call_boardgame_top_density(data, "category", year_in, year_out,
                                            no_of_ratings, tie, ord)
        IN  /\ request' = [op |-> "top_density", col |-> "category",
                           year_in |-> year_in, year_out |-> year_out,
                           no_of_ratings |-> no_of_ratings]
            /\ result' = r.ret
            /\ data' = r.data
            /\ table' = NoTable
            /\ UNCHANGED loaded

CallBoardgameTop ==
    request.op = "load" /\ TopCall(Years, Years, 0..MaxUsers, NumTopTags)

NextTop == CallBoardgameTop

SpecTop == InitTop /\ [][NextTop]_vars

\* The records of the loaded frame a top-5 request averages over, and the
\* mean rating of a tag over them, as <<sum, count>>.
InScope ==
    {i \in 1..Len(loaded.rows) :
        /\ InYears(loaded.rows[i], request.year_in, request.year_out)
        /\ loaded.rows[i].users_rated >= request.no_of_ratings}
ScopeTags == UNION {loaded.rows[i][request.col] : i \in InScope}
TagMean(t) ==
    LET with == {i \in InScope : t \in loaded.rows[i][request.col]}
    IN  <<Sum([i \in with |-> loaded.rows[i].average_rating], with), Cardinality(with)>>

\* C8: call_boardgame_top returns at most 5 tags of the chosen column, each
\* once and with the mean average_rating of the in-range records that carry
\* it, in descending order of the mean, and no tag left out has a strictly
\* higher mean than a tag returned.
C8_Top5 ==
    request.op = "top" =>
        LET rows == table.rows
            got == {rows[k].tag : k \in 1..Len(rows)}
        IN  /\ Len(rows) <= 5
            /\ Cardinality(got) = Len(rows)
            /\ got \subseteq ScopeTags
            /\ \A k \in 1..Len(rows) : rows[k].average_rating = TagMean(rows[k].tag)
            /\ \A j, k \in 1..Len(rows) :
                  j < k => ~MeanLess(rows[j].average_rating, rows[k].average_rating)
            /\ \A t \in ScopeTags \ got, u \in got : ~MeanLess(TagMean(u), TagMean(t))
            /\ got # ScopeTags => Len(rows) = 5

C8_Witness ==
    /\ request.op = "top"
    /\ Len(table.rows) = 5
    /\ Cardinality(ScopeTags) = 6
    /\ Cardinality(InScope) = 2
    /\ MeanLess(table.rows[5].average_rating, table.rows[1].average_rating)

----------------------------------------------------------------------------
(* Specification of rank_plot_density: bin_rating and density_transform *)

DensityFrames ==
    Frames(NumGames, {FirstYear}, 0..MaxBinRating, {0}, SUBSET Tags(NumSelTags),
           {{"a"}}, {{"a"}})

InitDensity ==
    /\ data \in DensityFrames
    /\ loaded = data
    /\ request = [op |-> "load"]
    /\ result = NoFrame
    /\ table = NoTable

\* plot_data of rank_plot_density: the top-5 frame when nothing is selected,
\* else the frame of the selection.
plot_data_of(df, col, list_, year_in, year_out, n_ratings, tie, ord) ==
    IF list_ = <<>>
    THEN call_boardgame_top_density(df, col, year_in, year_out, n_ratings, tie, ord)
    ELSE call_boardgame_radio(df, col, list_, year_in, year_out, n_ratings, ord)

\* rank_plot_density up to the chart: result is plot_data after bin_rating,
\* table the frame density_transform makes of it.
RankPlotDensity ==
    /\ request.op = "load"
    /\ \E list_ \in {<<>>} \cup TagLists(Tags(NumSelTags)),
          tie \in Orders(NumSelTags), ord \in Orders(NumSelTags) :
        LET p == plot_data_of(data, "category", list_, FirstYear, FirstYear, 0, tie, ord)
            d == density_transform(bin_rating(p.ret), "category")
        IN  /\ request' = [op |-> "rank_plot_density", col |-> "category",
                           list_ |-> list_]
            /\ result' = d.data
            /\ table' = d.ret
            /\ data' = p.data
            /\ UNCHANGED loaded

NextDensity == RankPlotDensity

SpecDensity == InitDensity /\ [][NextDensity]_vars

\* The rows of plot_data that belong to group g.
GroupRecords(g) ==
    {i \in 1..Len(result.rows) :
        IF IsList(result.rows[i].group) THEN g \in Range(result.rows[i].group.list)
        ELSE result.rows[i].group = Scalar(g)}

\* C9: in the table of density_transform, the density of a rating bin of a
\* group is the number of the group's records in the bin divided by the
\* number of the group's records; it lies in [0, 1] and the densities of a
\* group sum to 1.
C9_Density ==
    request.op = "rank_plot_density" =>
        /\ \A k \in 1..Len(table.rows) :
              LET d == table.rows[k]
                  all == GroupRecords(d.group)
                  inBin == {i \in all : result.rows[i].average_rating_bin = d.average_rating_bin}
              IN  /\ d.density # NaN
                  /\ d.density[2] > 0
                  /\ d.density[1] * Cardinality(all) = Cardinality(inBin) * d.density[2]
                  /\ 0 <= d.density[1] /\ d.density[1] <= d.density[2]
        /\ \A g \in {table.rows[k].group : k \in 1..Len(table.rows)} :
              LET of == {k \in 1..Len(table.rows) : table.rows[k].group = g}
              IN  \A j \in of :
                    Sum([k \in of |-> table.rows[k].density[1]], of) = table.rows[j].density[2]

C9_Witness ==
    /\ request.op = "rank_plot_density"
    /\ \E j, k \in 1..Len(table.rows) :
          /\ table.rows[j].group = AllSelected
          /\ table.rows[k].group = AllSelected
          /\ table.rows[j].density = <<1, 2>>
          /\ table.rows[k].density = <<1, 2>>
          /\ j # k
    /\ \E k \in 1..Len(table.rows) : table.rows[k].density[1] = 0

----------------------------------------------------------------------------
(* Specification of the dashboard: any sequence of requests on the loaded frame *)

MainFrames ==
    Frames(NumGames, Years, {0}, {0}, SUBSET Tags(NumSelTags), {{"a"}}, {{"a"}})

LastYear == FirstYear + MaxYearOffset

Init ==
    /\ data \in MainFrames
    /\ loaded = data
    /\ request = [op |-> "load"]
    /\ result = NoFrame
    /\ table = NoTable

Filter == FilterCall(FilterLists(Tags(NumSelTags)), {<<NoneVal>>}, {NoneInt}, {0})

Radio == RadioCall(TagLists(Tags(NumSelTags)), Years, {LastYear}, {0})

Top == TopCall(Years, {LastYear}, {0}, NumSelTags)

TopDensity == TopDensityCall(Years, {LastYear}, {0}, NumSelTags)

CountGroupOfRadio == CountGroup

SubsetData ==
    \E col \in TagColumns :
        LET r == subset_data(data, col)
        IN  /\ request' = [op |-> "subset_data", col |-> col]
            /\ table' = r.ret
            /\ data' = r.data
            /\ result' = NoFrame
            /\ UNCHANGED loaded

RemoveColumns ==
    LET r == remove_columns(data)
    IN  /\ request' = [op |-> "remove_columns"]
        /\ result' = r.ret
        /\ data' = r.data
        /\ table' = NoTable
        /\ UNCHANGED loaded

Next ==
    \/ Filter
    \/ Radio
    \/ Top
    \/ TopDensity
    \/ CountGroupOfRadio
    \/ SubsetData
    \/ RemoveColumns

Spec == Init /\ [][Next]_vars

\* C10: after any sequence of calls the frame passed in is as it was loaded
\* (same rows, same columns, no group column), count_group leaves the frame
\* it was given as call_boardgame_radio returned it, and what a call returns
\* is what it returns on the freshly loaded frame.
C10_NoState ==
    /\ data = loaded
    /\ "group" \notin data.columns
    /\ request.op = "filter" =>
          \E tie \in Orders(NumGames) :
              result = call_boardgame_filter(loaded, request.cat, request.mech, request.pub,
                                             request.n, request.n_ratings, tie).ret
    /\ request.op \in {"radio", "count_group"} =>
          \E ord \in Orders(NumSelTags) :
              result = call_boardgame_radio(loaded, request.col, request.list_,
                           request.year_in, request.year_out, request.no_of_ratings, ord).ret
    /\ request.op = "count_group" => table = count_group(result).ret
    /\ request.op = "top" =>
          \E tie \in Orders(NumSelTags) :
              table = call_boardgame_top(loaded, request.col, request.year_in,
                          request.year_out, request.no_of_ratings, tie).ret
    /\ request.op = "top_density" =>
          \E tie \in Orders(NumSelTags), ord \in Orders(NumSelTags) :
              result = call_boardgame_top_density(loaded, request.col, request.year_in,
                           request.year_out, request.no_of_ratings, tie, ord).ret
    /\ request.op = "subset_data" => table = subset_data(loaded, request.col).ret
    /\ request.op = "remove_columns" => result = remove_columns(loaded).ret

C10_Witness ==
    /\ request.op = "count_group"
    /\ "group" \in result.columns
    /\ Len(result.rows) = NumGames
    /\ AllSelected \in Range(table.columns)
    /\ \E y \in table.index : table.cell[y][AllSelected] = Num(1)
    /\ data = loaded

\* C7: every record call_boardgame_top_density returns has its year within
\* [year_in, year_out] and users_rated of at least no_of_ratings.
C7_TopDensityInRange ==
    request.op = "top_density" =>
        \A r \in Range(result.rows) :
            /\ InYears(r, request.year_in, request.year_out)
            /\ r.users_rated >= request.no_of_ratings

----------------------------------------------------------------------------
(* Specification of year_filter and rating_filter applied to a loaded frame *)

\* Years from one before the first to one after the last year of Years.
YearsWide == (FirstYear - 1) .. (LastYear + 1)

YearFrames == Frames(NumGames, YearsWide, {0}, 0..MaxUsers, {{"a"}}, {{"a"}}, {{"a"}})

InitYear ==
    /\ loaded \in YearFrames
    /\ data = loaded
    /\ request = [op |-> "load"]
    /\ result = NoFrame
    /\ table = NoTable

\* year_filter(data, year_in, year_out)
YearFilter ==
    /\ request.op = "load"
    /\ \E year_in \in YearsWide, year_out \in YearsWide :
          /\ request' = [op |-> "year_filter", year_in |-> year_in, year_out |-> year_out]
          /\ result' = year_filter(data, year_in, year_out)
    /\ UNCHANGED <<data, loaded, table>>

\* result: year_filter then rating_filter (lines 151-153);
\* table: rating_filter then year_filter.
YearAndRating ==
    /\ request.op = "load"
    /\ \E year_in \in YearsWide, year_out \in YearsWide, no_of_ratings \in 0..(MaxUsers + 1) :
          /\ request' = [op |-> "year_rating", year_in |-> year_in, year_out |-> year_out,
                         no_of_ratings |-> no_of_ratings]
          /\ result' = rating_filter(year_filter(data, year_in, year_out), no_of_ratings)
          /\ table' = year_filter(rating_filter(data, no_of_ratings), year_in, year_out)
    /\ UNCHANGED <<data, loaded>>

\* result: year_filter applied twice; table: applied once.
YearTwice ==
    /\ request.op = "load"
    /\ \E year_in \in YearsWide, year_out \in YearsWide :
          /\ request' = [op |-> "year_twice", year_in |-> year_in, year_out |-> year_out]
          /\ table' = year_filter(data, year_in, year_out)
          /\ result' = year_filter(year_filter(data, year_in, year_out), year_in, year_out)
    /\ UNCHANGED <<data, loaded>>

\* result: rating_filter applied twice; table: applied once.
RatingTwice ==
    /\ request.op = "load"
    /\ \E no_of_ratings \in 0..(MaxUsers + 1) :
          /\ request' = [op |-> "rating_twice", no_of_ratings |-> no_of_ratings]
          /\ table' = rating_filter(data, no_of_ratings)
          /\ result' = rating_filter(rating_filter(data, no_of_ratings), no_of_ratings)
    /\ UNCHANGED <<data, loaded>>

NextYear == YearFilter \/ YearAndRating \/ YearTwice \/ RatingTwice

SpecYear == InitYear /\ [][NextYear]_vars

\* C11: year_filter keeps exactly the records whose publication year y has
\* year_in <= y <= year_out, both bounds included, each once; when
\* year_in > year_out it keeps none.
C11_YearRange ==
    request.op = "year_filter" =>
        /\ Range(result.rows) =
              {r \in Range(loaded.rows) :
                  /\ request.year_in <= YearOf(r.year_published)
                  /\ YearOf(r.year_published) <= request.year_out}
        /\ Len(result.rows) = Cardinality(Range(result.rows))
        /\ request.year_in > request.year_out => result.rows = <<>>

C11_Witness ==
    /\ request.op = "year_filter"
    /\ request.year_in < request.year_out
    /\ \E r \in Range(result.rows) : YearOf(r.year_published) = request.year_in
    /\ \E r \in Range(result.rows) : YearOf(r.year_published) = request.year_out

\* C12: year_filter then rating_filter gives the same set of records as
\* rating_filter then year_filter, and either filter applied twice with the
\* same arguments gives the same records as applied once.
C12_Composable ==
    /\ request.op = "year_rating" => Range(result.rows) = Range(table.rows)
    /\ request.op \in {"year_twice", "rating_twice"} => result.rows = table.rows

C12_Witness ==
    /\ request.op = "year_rating"
    /\ \E r \in Range(loaded.rows) :
          /\ ~InYears(r, request.year_in, request.year_out)
          /\ r.users_rated >= request.no_of_ratings
    /\ \E r \in Range(loaded.rows) :
          /\ InYears(r, request.year_in, request.year_out)
          /\ r.users_rated < request.no_of_ratings
    /\ result.rows = <<>>
    /\ table.rows = <<>>

====
